---------------------------- MODULE Spec2Model ----------------------------
(***************************************************************************)
(* ID3 decision tree / Random Forest classifiers and their evaluation.     *)
(*                                                                         *)
(* Numbers.  Python floats are modelled as follows:                        *)
(*   - a probability or a ratio is a pair of integers (numerator,          *)
(*     denominator), compared by cross multiplication;                     *)
(*   - an entropy or an information gain is a fixed-point integer in units *)
(*     of 1/Scale; math.log2 is computed bit by bit in that fixed point.   *)
(*     log2 of a power of two is exact, so _entropy(1/2) is exactly Scale. *)
(*   - a Python exception is the record field raised = TRUE.               *)
(***************************************************************************)
EXTENDS Integers, Sequences, FiniteSets, Bags, TLC

VARIABLES
    examples,     \* a list[Example]: the argument of a call, holding the Example objects
    attributes,   \* the list[str] of candidate attributes handed with it
    cutoff,       \* ID3.cutoff, in hundredths
    tree_count,   \* RandomForest.tree_count
    id3,          \* an ID3 object: its root once constructed
    other,        \* a second ID3 object
    classifier,   \* a Classifier object, an ID3 or a RandomForest
    example,      \* the Example object handed to classify
    ret,          \* what the last call returned (or that it raised)
    writes,       \* the values the last call assigned to example.predicted
    first,        \* what id3.classify returned for `example` the first time
    constructed,  \* the root that ID3.__init__ assigned to id3.root
    drawn,        \* the example_subset and attribute_subset of each tree of the
                  \* last RandomForest.__init__
    classified,   \* the collection of Examples handed to ClassifierEvaluation, as
                  \* the Examples were at that call
    ce            \* a ClassifierEvaluation object: _example_count and _data

vars == <<examples, attributes, cutoff, tree_count, id3, other, classifier,
          example, ret, writes, first, constructed, drawn, classified, ce>>

---------------------------------------------------------------------------
(* Bounds *)

MaxExamples == 4      \* longest example list handed to ID3 / information gain
MaxTrainExamples == 3  \* longest example list handed to an ID3 that then classifies
MaxForestExamples == 3 \* longest example list handed to RandomForest
MaxTreeCount == 3     \* largest RandomForest.tree_count
MaxOtherExamples == 1  \* longest example list handed to the second ID3
MaxClassified == 10   \* largest collection handed to ClassifierEvaluation
MaxEvaluated == 3     \* largest drawn collection whose every metric is called
MaxPoolExamples == 2  \* largest pool of Example objects trained on and classified
MaxCopyExamples == 3  \* most Example objects created and copied
FracBits == 12        \* fractional bits of the fixed point that stands for a float

Tokens == {"a", "b"}

---------------------------------------------------------------------------
(* classifier.py: Category, Example *)

NONE == "NONE"
POS == "POS"
NEG == "NEG"

\* Category.values(): the enumeration order without NONE
CategoryValues == <<POS, NEG>>

CategorySet == {CategoryValues[i] : i \in DOMAIN CategoryValues}

\* Category.counting_dict(value)
CountingDict(value) == [c \in CategorySet |-> value]

\* Example.__init__: predicted starts as NONE
NewExampleObj(category, attrs) ==
    [actual |-> category, predicted |-> NONE, attributes |-> attrs]

\* as Contains, but looking at the first element of the list alone
ContainsFirst(attribute, ex) ==
    Len(ex.attributes) > 0 /\ ex.attributes[1] = attribute

\* `attribute in example.attributes` (list membership)
Contains(attribute, ex) ==
    \E i \in DOMAIN ex.attributes : ex.attributes[i] = attribute

\* max(seq, key=...) of Python: the first element whose key is maximal
RECURSIVE FirstMaxIndex(_, _, _)
FirstMaxIndex(keys, i, best) ==
    IF i > Len(keys) THEN best
    ELSE IF keys[i] > keys[best] THEN FirstMaxIndex(keys, i + 1, i)
    ELSE FirstMaxIndex(keys, i + 1, best)

\* as MaxCategory, but the last category whose count is maximal
MaxCategoryLast(d) ==
    IF d[CategoryValues[2]] >= d[CategoryValues[1]] THEN CategoryValues[2]
    ELSE CategoryValues[1]

\* max(d.keys(), key=d.get) for a counting dict d
MaxCategory(d) ==
    CategoryValues[FirstMaxIndex([i \in DOMAIN CategoryValues |-> d[CategoryValues[i]]], 2, 1)]

---------------------------------------------------------------------------
(* id3_util.py *)

Ok(v) == [raised |-> FALSE, value |-> v]
\* a call that raised returns nothing; value is then a filler of the type
Raise == [raised |-> TRUE, value |-> 0]
RaiseStr == [raised |-> TRUE, value |-> ""]

RECURSIVE Pow2(_)
Pow2(k) == IF k = 0 THEN 1 ELSE 2 * Pow2(k - 1)

\* the fixed-point unit, 1.0
Scale == Pow2(FracBits)

\* bring n/d into [1, 2): the result is <<n', d', e>> with n/d = (n'/d') * 2^e
RECURSIVE Normalise(_, _, _)
Normalise(n, d, e) ==
    IF n < d THEN Normalise(2 * n, d, e - 1)
    ELSE IF n >= 2 * d THEN Normalise(n, 2 * d, e + 1)
    ELSE <<n, d, e>>

\* the fractional bits of log2(x / Scale) for x / Scale in [1, 2)
RECURSIVE Log2Frac(_, _, _)
Log2Frac(x, k, acc) ==
    IF k = 0 THEN acc
    ELSE LET sq == (x * x) \div Scale
         IN IF sq >= 2 * Scale
            THEN Log2Frac(sq \div 2, k - 1, acc + Pow2(k - 1))
            ELSE Log2Frac(sq, k - 1, acc)

\* math.log2(n / d) in fixed point; ValueError when n / d <= 0
Log2(n, d) ==
    IF n <= 0 THEN Raise
    ELSE LET nde == Normalise(n, d, 0)
             x == (nde[1] * Scale) \div nde[2]
         IN Ok(nde[3] * Scale + Log2Frac(x, FracBits, 0))

\* as Entropy, but without the test for 0.0 and 1.0
EntropyUnguarded(n, d) ==
    LET lt == Log2(n, d)
        lf == Log2(d - n, d)
    IN IF lt.raised \/ lf.raised THEN Raise
       ELSE Ok(- ((n * lt.value) \div d) - (((d - n) * lf.value) \div d))

\* _entropy(probability) for probability = n / d
Entropy(n, d) ==
    IF n = 0 \/ n = d THEN Ok(0)
    ELSE LET lt == Log2(n, d)
             lf == Log2(d - n, d)
         IN IF lt.raised \/ lf.raised THEN Raise
            ELSE Ok(- ((n * lt.value) \div d) - (((d - n) * lf.value) \div d))

\* number of examples of a category, and of those containing the attribute
CountActual(exs, c) == Cardinality({i \in DOMAIN exs : exs[i].actual = c})
CountWith(exs, attribute, c) ==
    Cardinality({i \in DOMAIN exs : exs[i].actual = c /\ Contains(attribute, exs[i])})

\* _compute_info_gain(attribute, examples)
\* example_count and attribute_count are len() of the two counting dicts,
\* that is the number of categories, not the number of examples counted.
ComputeInfoGain(attribute, exs) ==
    LET example_count_per_category == [c \in CategorySet |-> CountActual(exs, c)]
        attribute_count_per_category == [c \in CategorySet |-> CountWith(exs, attribute, c)]
        example_count == Cardinality(DOMAIN example_count_per_category)
        attribute_count == Cardinality(DOMAIN attribute_count_per_category)
        pos_count == attribute_count_per_category[POS]
        neg_count == attribute_count_per_category[NEG]
        hc == Entropy(example_count_per_category[POS], example_count)
        hcx1 == IF attribute_count = 0 THEN Entropy(0, 1)
                ELSE Entropy(pos_count, attribute_count)
        hcx0 == IF attribute_count = 0 THEN Entropy(0, 1)
                ELSE Entropy(neg_count, attribute_count)
    IN IF hc.raised \/ hcx1.raised \/ hcx0.raised THEN Raise
       ELSE Ok(hc.value
               - ((attribute_count * hcx1.value) \div example_count
                  + ((example_count - attribute_count) * hcx0.value) \div example_count))

\* find_best_attribute(attributes, examples): max(attributes, key=gain)
FindBestAttribute(attrs, exs) ==
    LET gains == [i \in DOMAIN attrs |-> ComputeInfoGain(attrs[i], exs)]
    IN IF Len(attrs) = 0 \/ \E i \in DOMAIN attrs : gains[i].raised THEN RaiseStr
       ELSE Ok(attrs[FirstMaxIndex([i \in DOMAIN attrs |-> gains[i].value], 2, 1)])

---------------------------------------------------------------------------
(* id3.py: Node *)

\* a child slot that holds no Node (Python None)
None == [category |-> "None"]
RaiseNode == [raised |-> TRUE, value |-> None]

\* Node.__init__: children = dict.fromkeys({True, False})
Node(category, attribute) ==
    [category |-> category, attribute |-> attribute, children |-> [v \in BOOLEAN |-> None]]

\* Node.internal(attribute)
Internal(attribute) == Node(NONE, attribute)

\* as Leaf, but passing NONE for the category
LeafWithoutCategory(category) == Node(NONE, "")

\* Node.leaf(category)
Leaf(category) == Node(category, "")

---------------------------------------------------------------------------
(* id3.py: ID3 *)

\* the order in which CPython iterates the set literal {True, False}
ValueOrder == <<FALSE, TRUE>>

\* as MostCommonCategory, but the last of the categories of maximal count
MostCommonCategoryLast(exs) ==
    IF CountActual(exs, CategoryValues[2]) >= CountActual(exs, CategoryValues[1])
    THEN CategoryValues[2] ELSE CategoryValues[1]

\* most_common_category of id3_recursive
MostCommonCategory(exs) == MaxCategory([c \in CategorySet |-> CountActual(exs, c)])

\* as FirstPureCategory, but finding no category that all the examples have
FirstPureCategoryNever(exs) == NONE

\* the first category of Category.values() that all the examples have
FirstPureCategory(exs) ==
    LET pure(c) == \A i \in DOMAIN exs : exs[i].actual = c
    IN IF pure(CategoryValues[1]) THEN CategoryValues[1]
       ELSE IF pure(CategoryValues[2]) THEN CategoryValues[2]
       ELSE NONE

\* list(filter(predicate(value), examples))
ExampleSubset(exs, best_attr, value) ==
    SelectSeq(exs, LAMBDA e : Contains(best_attr, e) = value)

\* as AttributeSubset, but dropping the first attribute instead of best_attr
AttributeSubsetRest(attrs, best_attr) == Tail(attrs)

\* [a for a in attributes if a != best_attr]
AttributeSubset(attrs, best_attr) == SelectSeq(attrs, LAMBDA a : a # best_attr)

\* as OverCutoff, but never finding a subset over the cutoff
OverCutoffNever(subset, exs, cut) == FALSE

\* len(example_subset) / len(examples) > cls.cutoff, cutoff in hundredths
OverCutoff(subset, exs, cut) == Len(subset) * 100 > cut * Len(exs)

\* as EmptySubsetChild, but a leaf of the other category
OtherCategoryLeaf(most_common_category) ==
    Leaf(IF most_common_category = CategoryValues[1] THEN CategoryValues[2]
         ELSE CategoryValues[1])

\* the child stored for an empty example_subset
EmptySubsetChild(most_common_category) == Leaf(most_common_category)

\* ID3.id3_recursive(examples, attributes): [raised, value], value the root Node
RECURSIVE Id3Recursive(_, _, _), Id3Split(_, _, _, _, _, _, _),
          Id3SplitBranchLeaf(_, _, _, _, _, _, _)
Id3Recursive(exs, attrs, cut) ==
    IF FirstPureCategory(exs) # NONE THEN Ok(Leaf(FirstPureCategory(exs)))
    ELSE LET most_common_category == MostCommonCategory(exs)
         IN IF Len(attrs) = 0 THEN Ok(Leaf(most_common_category))
            ELSE LET best == FindBestAttribute(attrs, exs)
                 IN IF best.raised THEN RaiseNode
                    ELSE Id3Split(exs, attrs, cut, best.value, most_common_category,
                                  1, Internal(best.value))

\* as Id3Split, but a subset over the cutoff ends its own branch only
Id3SplitBranchLeaf(exs, attrs, cut, best_attr, most_common_category, i, root) ==
    IF i > Len(ValueOrder) THEN Ok(root)
    ELSE LET value == ValueOrder[i]
             example_subset == ExampleSubset(exs, best_attr, value)
         IN IF Len(example_subset) = 0 \/ OverCutoff(example_subset, exs, cut)
            THEN Id3SplitBranchLeaf(exs, attrs, cut, best_attr, most_common_category, i + 1,
                          [root EXCEPT !.children[value] = Leaf(most_common_category)])
            ELSE LET subtree == Id3Recursive(example_subset,
                                             AttributeSubset(attrs, best_attr), cut)
                 IN IF subtree.raised THEN RaiseNode
                    ELSE Id3SplitBranchLeaf(exs, attrs, cut, best_attr, most_common_category,
                                  i + 1, [root EXCEPT !.children[value] = subtree.value])

\* the loop `for value in {True, False}` from its i-th iteration on
Id3Split(exs, attrs, cut, best_attr, most_common_category, i, root) ==
    IF i > Len(ValueOrder) THEN Ok(root)
    ELSE LET value == ValueOrder[i]
             example_subset == ExampleSubset(exs, best_attr, value)
         IN IF Len(example_subset) = 0
            THEN Id3Split(exs, attrs, cut, best_attr, most_common_category, i + 1,
                          [root EXCEPT !.children[value] = EmptySubsetChild(most_common_category)])
            ELSE IF OverCutoff(example_subset, exs, cut)
            THEN Ok(Leaf(most_common_category))
            ELSE LET subtree == Id3Recursive(example_subset,
                                             AttributeSubset(attrs, best_attr), cut)
                 IN IF subtree.raised THEN RaiseNode
                    ELSE Id3Split(exs, attrs, cut, best_attr, most_common_category, i + 1,
                                  [root EXCEPT !.children[value] = subtree.value])

\* the walk of ID3.classify from a node: the category of the leaf reached;
\* reaching an empty child slot raises (AttributeError on None.category)
RECURSIVE Walk(_, _)
Walk(curr, ex) ==
    IF curr = None THEN [raised |-> TRUE, value |-> NONE]
    ELSE IF curr.category # NONE THEN Ok(curr.category)
    ELSE Walk(curr.children[Contains(curr.attribute, ex)], ex)

\* as ID3Classify, but returning the category without assigning predicted
ID3ClassifyNoWrite(root, ex) ==
    LET leaf == Walk(root, ex)
    IN [raised |-> leaf.raised, value |-> leaf.value, root |-> root, example |-> ex,
        writes |-> <<>>]

\* as ID3Classify, but walking with self.root as the cursor
ID3ClassifyDescend(root, ex) ==
    LET RECURSIVE Reached(_)
        Reached(curr) ==
            IF curr.category # NONE THEN curr
            ELSE Reached(curr.children[Contains(curr.attribute, ex)])
        leaf == Reached(root)
    IN [raised |-> FALSE, value |-> leaf.category, root |-> leaf,
        example |-> [ex EXCEPT !.predicted = leaf.category],
        writes |-> <<leaf.category>>]

\* ID3.classify(example): whether it raised, the category returned, the tree
\* and the example as the call leaves them, and the values it assigned to
\* example.predicted
ID3Classify(root, ex) ==
    LET leaf == Walk(root, ex)
    IN IF leaf.raised
       THEN [raised |-> TRUE, value |-> NONE, root |-> root, example |-> ex,
             writes |-> <<>>]
       ELSE [raised |-> FALSE, value |-> leaf.value, root |-> root,
             example |-> [ex EXCEPT !.predicted = leaf.value],
             writes |-> <<leaf.value>>]

---------------------------------------------------------------------------
(* random_forest.py: RandomForest *)

\* floor(sqrt(n))
RECURSIVE ISqrtFrom(_, _)
ISqrtFrom(n, r) == IF (r + 1) * (r + 1) > n THEN r ELSE ISqrtFrom(n, r + 1)
FloorSqrt(n) == ISqrtFrom(n, 0)

\* as ExampleCount, but rounding to the nearest integer
ExampleCountRounded(n) == (n * 6321 + 5000) \div 10000

\* floor(len(examples) * RandomForest.examples_per_tree), examples_per_tree =
\* 1 - 1/e = 0.63212...; the four decimals decide the floor for len < 1000
ExampleCount(n) == (n * 6321) \div 10000

\* min(len(attributes), floor(sqrt(len(examples))))
AttributeCount(nAttrs, nExamples) ==
    IF nAttrs < FloorSqrt(nExamples) THEN nAttrs ELSE FloorSqrt(nExamples)

\* what random.choices(examples, k=k) can return
Choices(exs, k) == {[i \in 1..k |-> exs[s[i]]] : s \in [1..k -> DOMAIN exs]}

\* what random.sample(attributes, k=k) can return: k distinct positions
Samples(attrs, k) ==
    {[i \in 1..k |-> attrs[s[i]]] :
        s \in {t \in [1..k -> DOMAIN attrs] : \A i, j \in 1..k : i # j => t[i] # t[j]}}

\* the results ID3(example_subset, attribute_subset) can have for one tree of
\* RandomForest.__init__
SampledTrees(exs, attrs, cut) ==
    {Id3Recursive(es, as, cut) :
        es \in Choices(exs, ExampleCount(Len(exs))),
        as \in Samples(attrs, AttributeCount(Len(attrs), Len(exs)))}


\* the trees of a forest as a bag: self.trees is a set of ID3 objects, which
\* has no order and may hold equal trees
RECURSIVE BagOfSeq(_)
BagOfSeq(s) == IF Len(s) = 0 THEN EmptyBag ELSE BagOfSeq(Tail(s)) (+) SetToBag({Head(s)})

\* the orders in which `for tree in self.trees` can iterate the set
IterationOrders(trees) ==
    {s \in [1..BagCardinality(trees) -> BagToSet(trees)] : BagOfSeq(s) = trees}

\* RandomForest.__init__ after the draws: it raises when an ID3 construction
\* raises, and else holds the trees
ForestOf(results) ==
    IF \E i \in DOMAIN results : results[i].raised
    THEN [raised |-> TRUE, value |-> EmptyBag]
    ELSE Ok(BagOfSeq([i \in DOMAIN results |-> results[i].value]))

\* the loop of RandomForest.classify over the trees in one iteration order
RECURSIVE ForestLoop(_, _, _, _, _)
ForestLoop(trees, i, ex, category_count, written) ==
    IF i > Len(trees)
    THEN [raised |-> FALSE, count |-> category_count, example |-> ex, writes |-> written]
    ELSE LET r == ID3Classify(trees[i], ex)
         IN IF r.raised
            THEN [raised |-> TRUE, count |-> category_count, example |-> r.example,
                  writes |-> written]
            ELSE ForestLoop(trees, i + 1, r.example,
                            [category_count EXCEPT ![r.value] = @ + 1],
                            written \o r.writes)

\* RandomForest.classify(example) with the trees iterated in the given order
RandomForestClassify(trees, ex) ==
    LET loop == ForestLoop(trees, 1, ex, CountingDict(0), <<>>)
    IN IF loop.raised
       THEN [raised |-> TRUE, value |-> NONE, example |-> loop.example,
             writes |-> loop.writes]
       ELSE LET predicted_category == MaxCategory(loop.count)
            IN [raised |-> FALSE, value |-> predicted_category,
                example |-> [loop.example EXCEPT !.predicted = predicted_category],
                writes |-> Append(loop.writes, predicted_category)]

---------------------------------------------------------------------------
(* Inputs *)

\* the attribute lists of the Examples drawn as inputs
AttrSeqs == << <<>>, <<"a">>, <<"b">>, <<"a", "b">> >>

\* the Examples drawn as inputs: every actual category with every attribute list
KindCount == Len(AttrSeqs) * Len(CategoryValues)
Kind(k) == NewExampleObj(CategoryValues[((k - 1) % Len(CategoryValues)) + 1],
                         AttrSeqs[((k - 1) \div Len(CategoryValues)) + 1])
ExampleKinds == {Kind(k) : k \in 1..KindCount}

\* the example lists of length n, one per multiset (no function reads the order)
ExampleListsOfLen(n) ==
    {[i \in 1..n |-> Kind(s[i])] :
        s \in {t \in [1..n -> 1..KindCount] : \A i \in 1..(n - 1) : t[i] <= t[i + 1]}}
ExampleLists == UNION {ExampleListsOfLen(n) : n \in 0..MaxExamples}

\* the candidate attribute lists: the lists of distinct tokens
AttributeLists ==
    UNION {{s \in [1..n -> Tokens] : \A i, j \in 1..n : i # j => s[i] # s[j]} :
           n \in 0..Cardinality(Tokens)}

---------------------------------------------------------------------------
(* The state of the classes at import time and of the objects not yet made *)

DefaultCutoff == 95
\* the values ID3.cutoff is set to, in hundredths
Cutoffs == {50, 70, DefaultCutoff}
DefaultTreeCount == 150

NoReturn == [op |-> "none", arg |-> "", raised |-> FALSE, value |-> NONE]
NoExample == NewExampleObj(NONE, <<>>)
NoID3 == [built |-> FALSE, root |-> None]
NoClassifier == [kind |-> "none", root |-> None, trees |-> EmptyBag]
NoEvaluation == [built |-> FALSE, example_count |-> 0,
                 data |-> [c \in CategorySet |-> [b \in BOOLEAN |-> 0]]]

ClassesInit ==
    /\ cutoff = DefaultCutoff
    /\ tree_count = DefaultTreeCount
ClassifiersInit ==
    /\ id3 = NoID3
    /\ other = NoID3
    /\ classifier = NoClassifier
    /\ example = NoExample
    /\ writes = <<>>
    /\ first = NONE
    /\ constructed = None
    /\ drawn = <<>>
EvaluationInit ==
    /\ classified = <<>>
    /\ ce = NoEvaluation
InputsInit ==
    /\ examples = <<>>
    /\ attributes = <<>>

classVars == <<cutoff, tree_count>>
classifierVars == <<id3, other, classifier, example, writes, first, constructed,
                    drawn>>
evaluationVars == <<classified, ce>>
inputVars == <<examples, attributes>>

---------------------------------------------------------------------------
(* SpecGain: the information gain functions applied to drawn inputs *)

GainInit ==
    /\ examples \in ExampleLists
    /\ attributes \in AttributeLists
    /\ ret = NoReturn
    /\ ClassesInit /\ ClassifiersInit /\ EvaluationInit

\* _compute_info_gain(attribute, examples)
CallComputeInfoGain(attribute) ==
    /\ ret' = [op |-> "gain", arg |-> attribute] @@ ComputeInfoGain(attribute, examples)
    /\ UNCHANGED <<inputVars, classVars, classifierVars, evaluationVars>>

\* find_best_attribute(attributes, examples)
CallFindBestAttribute ==
    /\ ret' = [op |-> "best", arg |-> ""] @@ FindBestAttribute(attributes, examples)
    /\ UNCHANGED <<inputVars, classVars, classifierVars, evaluationVars>>

\* the probabilities n/d that _entropy is called with
Probabilities == {<<n, d>> : n \in 0..3, d \in {1, 2, 4}}

\* _entropy(probability)
CallEntropy(n, d) ==
    /\ ret' = [op |-> "entropy", arg |-> "", p |-> <<n, d>>] @@ Entropy(n, d)
    /\ UNCHANGED <<inputVars, classVars, classifierVars, evaluationVars>>

GainNext ==
    \/ \E attribute \in Tokens : CallComputeInfoGain(attribute)
    \/ CallFindBestAttribute
    \/ \E p \in Probabilities : CallEntropy(p[1], p[2])

SpecGain == GainInit /\ [][GainNext]_vars

\* The information gain as the formula H(C) - (P(X=1) H(C|X=1) + P(X=0) H(C|X=0))
\* defines it, from the counts of the examples, in the same fixed point.
RefInfoGain(attribute, exs) ==
    LET n == Len(exs)
        nPos == CountActual(exs, POS)
        nPresent == Cardinality({i \in DOMAIN exs : Contains(attribute, exs[i])})
        nAbsent == n - nPresent
        posPresent == CountWith(exs, attribute, POS)
        posAbsent == nPos - posPresent
        hPresent == IF nPresent = 0 THEN 0 ELSE Entropy(posPresent, nPresent).value
        hAbsent == IF nAbsent = 0 THEN 0 ELSE Entropy(posAbsent, nAbsent).value
    IN Entropy(nPos, n).value - ((nPresent * hPresent) \div n + (nAbsent * hAbsent) \div n)

\* C4: for any attribute and any non-empty example list, the information gain
\* that _compute_info_gain returns is greater than or equal to 0.
C4_GainNonNegative ==
    (ret.op = "gain" /\ Len(examples) > 0 /\ ~ret.raised) => ret.value >= 0

\* C5: for any attribute and any non-empty example list, _compute_info_gain
\* returns the reference value H(nPos/n) - (pPresent * H(posPresent/nPresent)
\* + (1 - pPresent) * H(posAbsent/nAbsent)), an empty group counting as H(0).
C5_GainIsReference ==
    (ret.op = "gain" /\ Len(examples) > 0) =>
        (~ret.raised /\ ret.value = RefInfoGain(ret.arg, examples))

\* C6: for a non-empty candidate list and a non-empty example list,
\* find_best_attribute returns a candidate whose information gain (the reduction
\* in label entropy) is at least that of every other candidate, and the first
\* such candidate in candidate order.
C6_BestHasMaximalGain ==
    (ret.op = "best" /\ Len(attributes) > 0 /\ Len(examples) > 0) =>
        /\ ~ret.raised
        /\ \E i \in DOMAIN attributes :
            /\ attributes[i] = ret.value
            /\ \A j \in DOMAIN attributes :
                RefInfoGain(attributes[i], examples) >= RefInfoGain(attributes[j], examples)
            /\ \A j \in 1..(i - 1) :
                RefInfoGain(attributes[j], examples) < RefInfoGain(attributes[i], examples)

\* C19: _entropy(p) returns exactly 0 when p is exactly 0 or exactly 1, without
\* evaluating a logarithm of zero, and exactly 1 at p = 1/2.
C19_EntropyAtEnds ==
    ret.op = "entropy" =>
        /\ (ret.p[1] = 0 \/ ret.p[1] = ret.p[2]) => (~ret.raised /\ ret.value = 0)
        /\ 2 * ret.p[1] = ret.p[2] => (~ret.raised /\ ret.value = Scale)

\* _entropy(1/2) returned 1
C19_Witness == ret.op = "entropy" /\ ret.p = <<1, 2>> /\ ret.value = Scale

\* _entropy(0) and _entropy(1) returned 0
C19_ZeroWitness == ret.op = "entropy" /\ ret.p = <<0, 1>> /\ ~ret.raised /\ ret.value = 0
C19_OneWitness == ret.op = "entropy" /\ ret.p = <<1, 1>> /\ ~ret.raised /\ ret.value = 0

---------------------------------------------------------------------------
(* SpecBuild: ID3 construction applied to drawn inputs *)

BuildInit ==
    /\ examples \in ExampleLists
    /\ attributes \in AttributeLists
    /\ cutoff \in Cutoffs
    /\ tree_count = DefaultTreeCount
    /\ ret = NoReturn
    /\ ClassifiersInit /\ EvaluationInit

\* ID3.__init__(examples, attributes): self.root = id3_recursive(...)
BuildID3 ==
    /\ ~id3.built
    /\ LET r == Id3Recursive(examples, attributes, cutoff)
       IN /\ id3' = IF r.raised THEN id3 ELSE [built |-> TRUE, root |-> r.value]
          /\ ret' = [op |-> "ID3", arg |-> "", raised |-> r.raised, value |-> NONE]
    /\ UNCHANGED <<inputVars, classVars, other, classifier, example, writes, first,
                   constructed, evaluationVars, drawn>>

BuildNext == BuildID3

SpecBuild == BuildInit /\ [][BuildNext]_vars

\* the nodes of a tree are leaves and internal nodes as the Node class describes
RECURSIVE WellFormed(_)
WellFormed(node) ==
    \/ /\ node.category \in CategorySet
       /\ \A v \in BOOLEAN : node.children[v] = None
    \/ /\ node.category = NONE
       /\ node.attribute \in Tokens
       /\ DOMAIN node.children = BOOLEAN
       /\ \A v \in BOOLEAN : node.children[v] # None /\ WellFormed(node.children[v])

\* C2: every node of every tree that ID3 construction returns is a leaf
\* (category POS or NEG, no child nodes) or an internal node (category NONE, a
\* test attribute, a child under True and a child under False, neither missing).
C2_NodesWellFormed == id3.built => WellFormed(id3.root)

\* a tree with an internal node was built
C2_Witness == id3.built /\ id3.root.category = NONE /\ id3.root.children[TRUE].category = NONE

\* C3: ID3 construction completes without raising for every example list with
\* actual POS or NEG and every attribute list.
C3_ConstructionNeverRaises == ret.op = "ID3" => ~ret.raised

\* the examples of the constructed tree hold both categories
LabelMixed == \E i, j \in DOMAIN examples : examples[i].actual # examples[j].actual

\* the number of examples that contain (value TRUE) or lack (FALSE) the attribute
SideCount(attribute, value) ==
    Cardinality({i \in DOMAIN examples : Contains(attribute, examples[i]) = value})

\* that side of the split holds more than cutoff of the examples
SideOverCutoff(attribute, value) ==
    SideCount(attribute, value) * 100 > cutoff * Len(examples)

\* the construction reached a split: mixed labels, an attribute was selected
AtSplit ==
    /\ ret.op = "ID3"
    /\ LabelMixed
    /\ Len(attributes) > 0
    /\ ~FindBestAttribute(attributes, examples).raised

\* the attribute selected at the split of the whole collection
SplitAttribute == FindBestAttribute(attributes, examples).value

\* C20: at a split of a label-mixed collection, when the subset with the
\* selected attribute or the subset without it holds more than cutoff of the
\* examples, the call returns one leaf with a most common category of the whole
\* collection, whichever branch is examined first and whatever subtree was
\* already built for the other branch.
C20_CutoffEndsWholeCall ==
    (AtSplit /\ \E value \in BOOLEAN : SideOverCutoff(SplitAttribute, value)) =>
        /\ ~ret.raised
        /\ id3.built
        /\ id3.root.category \in CategorySet
        /\ \A v \in BOOLEAN : id3.root.children[v] = None
        /\ \A c \in CategorySet :
              CountActual(examples, id3.root.category) >= CountActual(examples, c)

\* the subset examined second is over the cutoff after a subtree was built
\* for the first, and the call returned a leaf
C20_Witness ==
    /\ AtSplit
    /\ SideCount(SplitAttribute, ValueOrder[1]) > 0
    /\ ~SideOverCutoff(SplitAttribute, ValueOrder[1])
    /\ SideOverCutoff(SplitAttribute, ValueOrder[2])
    /\ id3.built /\ id3.root.category \in CategorySet

\* the subset examined first is over the cutoff while the other is not empty
C20_FirstWitness ==
    /\ AtSplit
    /\ SideOverCutoff(SplitAttribute, ValueOrder[1])
    /\ SideCount(SplitAttribute, ValueOrder[2]) > 0
    /\ id3.built /\ id3.root.category \in CategorySet

\* every example of the non-empty list has the actual category c
AllOfCategory(c) ==
    /\ Len(examples) > 0
    /\ \A i \in DOMAIN examples : examples[i].actual = c

\* C21: when every example of a non-empty collection has the same actual
\* category c, ID3 construction returns one leaf with category c for any
\* attributes and any cutoff, and selects no attribute.
C21_PureGivesLeaf ==
    \A c \in CategorySet :
        (ret.op = "ID3" /\ AllOfCategory(c)) =>
            /\ ~ret.raised
            /\ id3.built
            /\ id3.root.category = c
            /\ id3.root.attribute = ""
            /\ \A v \in BOOLEAN : id3.root.children[v] = None

\* a leaf was returned for examples of one category that the first attribute
\* splits in two halves, neither over the cutoff
C21_Witness ==
    /\ ret.op = "ID3" /\ id3.built
    /\ \E c \in CategorySet : AllOfCategory(c) /\ id3.root.category = c
    /\ Len(attributes) > 0
    /\ SideCount(attributes[1], TRUE) > 0
    /\ SideCount(attributes[1], FALSE) > 0
    /\ \A v \in BOOLEAN : ~SideOverCutoff(attributes[1], v)

\* C22: for a label-mixed example collection and no attributes, ID3
\* construction returns one leaf whose category is the actual category with the
\* highest count, and POS when POS and NEG have equal counts.
C22_NoAttributesGivesMajority ==
    (ret.op = "ID3" /\ LabelMixed /\ Len(attributes) = 0) =>
        /\ ~ret.raised
        /\ id3.built
        /\ \A v \in BOOLEAN : id3.root.children[v] = None
        /\ id3.root.category =
              IF CountActual(examples, POS) >= CountActual(examples, NEG) THEN POS ELSE NEG

\* equal counts of POS and NEG, no attributes: the leaf is POS
C22_Witness ==
    /\ ret.op = "ID3" /\ LabelMixed /\ Len(attributes) = 0
    /\ CountActual(examples, POS) = CountActual(examples, NEG)
    /\ id3.built /\ id3.root.category = POS

\* more NEG than POS, no attributes: the leaf is NEG
C22_NegWitness ==
    /\ ret.op = "ID3" /\ LabelMixed /\ Len(attributes) = 0
    /\ CountActual(examples, POS) < CountActual(examples, NEG)
    /\ id3.built /\ id3.root.category = NEG

---------------------------------------------------------------------------
(* SpecFallback: ID3 construction under cutoffs below 1 and the cutoff 1 *)

\* the values ID3.cutoff is set to here, in hundredths; under the cutoff 1 no
\* subset holds more than cutoff of the examples
FallbackCutoffs == {50, DefaultCutoff, 100}

FallbackInit ==
    /\ examples \in ExampleLists
    /\ attributes \in AttributeLists
    /\ cutoff \in FallbackCutoffs
    /\ tree_count = DefaultTreeCount
    /\ ret = NoReturn
    /\ ClassifiersInit /\ EvaluationInit

SpecFallback == FallbackInit /\ [][BuildNext]_vars

\* the category of highest count among the examples, POS on equal counts
Majority(exs) == IF CountActual(exs, POS) >= CountActual(exs, NEG) THEN POS ELSE NEG

\* the examples of exs on the side `value` of the attribute
Side(exs, attribute, value) == SelectSeq(exs, LAMBDA e : Contains(attribute, e) = value)

\* below every internal node, the child of an empty side is a leaf with the
\* most common category of the examples that reached the node
RECURSIVE EmptySidesAreFallback(_, _)
EmptySidesAreFallback(node, exs) ==
    \/ node.category # NONE
    \/ \A v \in BOOLEAN :
         LET side == Side(exs, node.attribute, v)
             child == node.children[v]
         IN IF Len(side) = 0
            THEN /\ child # None
                 /\ child.category = Majority(exs)
                 /\ \A w \in BOOLEAN : child.children[w] = None
            ELSE child # None /\ EmptySidesAreFallback(child, side)

\* C23: when the examples on one side of a split are none, the subtree of that
\* side is a leaf with the most common category of the call that splits; and
\* construction from no examples gives one leaf with a category other than
\* NONE instead of raising.
C23_EmptySideIsFallback ==
    /\ id3.built => EmptySidesAreFallback(id3.root, examples)
    /\ (ret.op = "ID3" /\ Len(examples) = 0) =>
          /\ ~ret.raised
          /\ id3.built
          /\ id3.root.category \in CategorySet
          /\ \A v \in BOOLEAN : id3.root.children[v] = None

\* a returned tree whose root has an empty side, with the fallback leaf there
C23_Witness ==
    /\ id3.built /\ id3.root.category = NONE
    /\ \E v \in BOOLEAN :
          /\ Len(Side(examples, id3.root.attribute, v)) = 0
          /\ id3.root.children[v].category = Majority(examples)

\* a tree was constructed from no examples and some attributes
C23_EmptyWitness ==
    /\ ret.op = "ID3" /\ Len(examples) = 0 /\ Len(attributes) > 0
    /\ id3.built /\ id3.root.category \in CategorySet

\* the attributes still available below the nodes that tested `tested`
Remaining(tested) == {attributes[i] : i \in DOMAIN attributes} \ tested

\* every internal node tests an attribute that no node above it tested
RECURSIVE TestsOnce(_, _)
TestsOnce(node, tested) ==
    \/ node.category # NONE
    \/ /\ node.attribute \in Remaining(tested)
       /\ \A v \in BOOLEAN : TestsOnce(node.children[v], tested \cup {node.attribute})

\* the largest number of internal nodes on a path from the node to a leaf
RECURSIVE InternalDepth(_)
InternalDepth(node) ==
    IF node.category # NONE THEN 0
    ELSE LET d == [v \in BOOLEAN |-> InternalDepth(node.children[v])]
         IN 1 + (IF d[TRUE] >= d[FALSE] THEN d[TRUE] ELSE d[FALSE])

\* C24: ID3 construction terminates: the call returns a tree or raises, and as
\* every recursive call gets the attributes without the selected one, no
\* attribute is tested twice on a path and a path holds at most as many
\* internal nodes as there are distinct candidate attributes.
C24_AttributesTestedOnce ==
    /\ ret.op = "ID3" => (ret.raised \/ id3.built)
    /\ id3.built =>
          /\ TestsOnce(id3.root, {})
          /\ InternalDepth(id3.root) <= Cardinality(Remaining({}))

\* a returned tree with a path of two internal nodes, one per attribute
C24_Witness ==
    /\ id3.built /\ id3.root.category = NONE
    /\ InternalDepth(id3.root) = 2
    /\ Cardinality(Remaining({})) = 2

\* below the node, every internal node splits the examples that reached it in
\* two sides that are not empty and hold at most cutoff of them each
RECURSIVE SplitsWithinCutoff(_, _)
SplitsWithinCutoff(node, exs) ==
    \/ node.category # NONE
    \/ \A v \in BOOLEAN :
         LET side == Side(exs, node.attribute, v)
         IN /\ Len(side) > 0
            /\ Len(side) * 100 <= cutoff * Len(exs)
            /\ node.children[v] # None
            /\ SplitsWithinCutoff(node.children[v], side)

\* C27: in every tree built with cutoff < 1, every internal node splits the
\* training examples that reached it in two non-empty subsets of at most cutoff
\* of them each: no child of an internal node is the leaf made for an empty
\* subset, and a node with an empty subset is returned as a leaf.
C27_InternalNodesSplit ==
    (id3.built /\ cutoff < 100) => SplitsWithinCutoff(id3.root, examples)

\* a tree built with cutoff < 1 whose root and one child are internal nodes
C27_Witness ==
    /\ id3.built /\ cutoff < 100
    /\ InternalDepth(id3.root) = 2

\* the selected attribute left one side empty and the call returned a leaf
C27_LeafWitness ==
    /\ AtSplit /\ cutoff < 100 /\ id3.built
    /\ \E v \in BOOLEAN : SideCount(SplitAttribute, v) = 0
    /\ id3.root.category \in CategorySet

---------------------------------------------------------------------------
(* Spec: a classifier is constructed under the default cutoff and classifies *)

\* the example lists handed to RandomForest
ForestExampleLists == UNION {ExampleListsOfLen(n) : n \in 0..MaxForestExamples}

\* the example lists handed to an ID3 that then classifies
TrainExampleLists == UNION {ExampleListsOfLen(n) : n \in 0..MaxTrainExamples}

\* what ID3(examples, attributes) can give under each cutoff, over the inputs
ID3Outcomes ==
    {<<c, Id3Recursive(exs, attrs, c)>> :
        c \in Cutoffs, exs \in TrainExampleLists, attrs \in AttributeLists}

\* what RandomForest(examples, attributes) can give under the default cutoff
\* and each tree_count, over the inputs and the random draws
SampledTreeSets ==
    {<<DefaultCutoff, SampledTrees(exs, attrs, DefaultCutoff)>> :
        exs \in ForestExampleLists, attrs \in AttributeLists}
RandomForestOutcomes ==
    UNION {{<<cs[1], n, ForestOf(results)>> : results \in [1..n -> cs[2]]} :
           cs \in SampledTreeSets, n \in 0..MaxTreeCount}

Init ==
    /\ ClassesInit /\ ClassifiersInit /\ EvaluationInit /\ InputsInit
    /\ ret = NoReturn

\* RandomForest.tree_count = n
SetTreeCount(n) ==
    /\ tree_count' = n
    /\ ret' = NoReturn /\ writes' = <<>>
    /\ UNCHANGED <<inputVars, cutoff, id3, other, classifier, example, first,
                   constructed, evaluationVars, drawn>>

\* example = Example(category, raw_text)
NewExample(kind) ==
    /\ example' = kind
    /\ first' = NONE
    /\ ret' = NoReturn /\ writes' = <<>>
    /\ UNCHANGED <<inputVars, classVars, id3, other, classifier, constructed,
                   evaluationVars, drawn>>

\* classifier = ID3(examples, attributes)
ID3Init ==
    \E o \in ID3Outcomes :
        /\ o[1] = cutoff
        /\ classifier' = IF o[2].raised THEN classifier
                         ELSE [kind |-> "ID3", root |-> o[2].value, trees |-> EmptyBag]
        /\ ret' = [op |-> "ID3", arg |-> "", raised |-> o[2].raised, value |-> NONE]
        /\ writes' = <<>>
        /\ UNCHANGED <<inputVars, classVars, id3, other, example, first, constructed,
                       evaluationVars, drawn>>

\* classifier = RandomForest(examples, attributes)
RandomForestInit ==
    /\ tree_count <= MaxTreeCount
    /\ \E o \in RandomForestOutcomes :
        /\ o[1] = cutoff /\ o[2] = tree_count
        /\ classifier' = IF o[3].raised THEN classifier
                         ELSE [kind |-> "RandomForest", root |-> None, trees |-> o[3].value]
        /\ ret' = [op |-> "RandomForest", arg |-> "", raised |-> o[3].raised,
                   value |-> NONE]
        /\ writes' = <<>>
        /\ UNCHANGED <<inputVars, classVars, id3, other, example, first, constructed,
                       evaluationVars, drawn>>

\* what classifier.classify(example) can do: a RandomForest iterates its set
\* of trees in some order
ClassifyResults(clf, ex) ==
    IF clf.kind = "ID3" THEN {ID3Classify(clf.root, ex)}
    ELSE {RandomForestClassify(order, ex) : order \in IterationOrders(clf.trees)}

\* classifier.classify(example)
Classify ==
    /\ classifier.kind # "none"
    /\ example # NoExample
    /\ \E r \in ClassifyResults(classifier, example) :
        /\ example' = r.example
        /\ ret' = [op |-> "classify", arg |-> classifier.kind, raised |-> r.raised,
                   value |-> r.value]
        /\ writes' = r.writes
    /\ UNCHANGED <<inputVars, classVars, id3, other, classifier, first, constructed,
                   evaluationVars, drawn>>

Next ==
    \/ \E n \in 0..MaxTreeCount : SetTreeCount(n)
    \/ \E kind \in ExampleKinds : NewExample(kind)
    \/ ID3Init
    \/ RandomForestInit
    \/ Classify

Spec == Init /\ [][Next]_vars

\* C1: for every ID3 tree and every RandomForest obtained by construction, and
\* every example, classify returns POS or NEG, never NONE, and on return the
\* example's predicted equals the returned category.
C1_ClassifyReturnsCategory ==
    ret.op = "classify" =>
        /\ ~ret.raised
        /\ ret.value \in {POS, NEG}
        /\ example.predicted = ret.value

\* an ID3 tree with an internal root has classified an example as NEG
C1_Witness ==
    /\ ret.op = "classify" /\ ret.arg = "ID3"
    /\ classifier.root.category = NONE
    /\ ret.value = NEG

\* the number of trees of the forest whose walk for the example ends in category c
VotesFor(trees, ex, c) ==
    BagCardinality([t \in {u \in BagToSet(trees) : Walk(u, ex).value = c} |-> trees[t]])

\* C7: RandomForest.classify returns the category with the most votes among the
\* member trees' classifications, POS when POS and NEG have equally many, and
\* leaves predicted equal to it whatever order the trees voted in; a forest of
\* exactly one tree returns that tree's classification.
C7_MajorityVote ==
    (ret.op = "classify" /\ ret.arg = "RandomForest") =>
        /\ ~ret.raised
        /\ ret.value = IF VotesFor(classifier.trees, example, POS)
                          >= VotesFor(classifier.trees, example, NEG)
                       THEN POS ELSE NEG
        /\ example.predicted = ret.value
        /\ \A t \in BagToSet(classifier.trees) :
            BagCardinality(classifier.trees) = 1 => ret.value = Walk(t, example).value

\* a forest of three trees has voted one POS against two NEG
C7_Witness ==
    /\ ret.op = "classify" /\ ret.arg = "RandomForest"
    /\ VotesFor(classifier.trees, example, POS) = 1
    /\ VotesFor(classifier.trees, example, NEG) = 2
    /\ ret.value = NEG

\* a forest of two trees has voted one POS against one NEG
C7_TieWitness ==
    /\ ret.op = "classify" /\ ret.arg = "RandomForest"
    /\ VotesFor(classifier.trees, example, POS) = 1
    /\ VotesFor(classifier.trees, example, NEG) = 1
    /\ ret.value = POS

\* C8: during one RandomForest.classify call the example's predicted is written
\* exactly once, by the ensemble's final decision after all the trees have
\* voted; no member tree's verdict is written into it.
C8_PredictedWrittenOnce ==
    (ret.op = "classify" /\ ret.arg = "RandomForest" /\ ~ret.raised) =>
        writes = <<ret.value>>

---------------------------------------------------------------------------
(* SpecID3: an ID3 tree classifies while another tree is constructed and *)
(* used and ID3.cutoff changes                                            *)

\* what ID3(examples, attributes) can give for the second tree
OtherOutcomes ==
    {<<c, Id3Recursive(exs, attrs, c)>> :
        c \in Cutoffs,
        exs \in UNION {ExampleListsOfLen(n) : n \in 0..MaxOtherExamples},
        attrs \in AttributeLists}

\* ID3.cutoff = c
SetCutoff(c) ==
    /\ cutoff' = c
    /\ ret' = NoReturn /\ writes' = <<>>
    /\ UNCHANGED <<inputVars, tree_count, id3, other, classifier, example, first,
                   constructed, evaluationVars, drawn>>

\* id3 = ID3(examples, attributes)
ConstructID3 ==
    \E o \in ID3Outcomes :
        /\ o[1] = cutoff
        /\ id3' = IF o[2].raised THEN id3 ELSE [built |-> TRUE, root |-> o[2].value]
        /\ constructed' = IF o[2].raised THEN constructed ELSE o[2].value
        /\ first' = IF o[2].raised THEN first ELSE NONE
        /\ ret' = [op |-> "ID3", arg |-> "id3", raised |-> o[2].raised, value |-> NONE]
        /\ writes' = <<>>
        /\ UNCHANGED <<inputVars, classVars, other, classifier, example, evaluationVars,
                       drawn>>

\* other = ID3(examples, attributes)
ConstructOther ==
    \E o \in OtherOutcomes :
        /\ o[1] = cutoff
        /\ other' = IF o[2].raised THEN other ELSE [built |-> TRUE, root |-> o[2].value]
        /\ ret' = [op |-> "ID3", arg |-> "other", raised |-> o[2].raised, value |-> NONE]
        /\ writes' = <<>>
        /\ UNCHANGED <<inputVars, classVars, id3, classifier, example, first, constructed,
                       evaluationVars, drawn>>

\* id3.classify(example)
ClassifyID3 ==
    /\ id3.built
    /\ example # NoExample
    /\ LET r == ID3Classify(id3.root, example)
       IN /\ id3' = [id3 EXCEPT !.root = r.root]
          /\ example' = r.example
          /\ ret' = [op |-> "classify", arg |-> "id3", raised |-> r.raised,
                     value |-> r.value]
          /\ writes' = r.writes
          /\ first' = IF first = NONE /\ ~r.raised THEN r.value ELSE first
    /\ UNCHANGED <<inputVars, classVars, other, classifier, constructed, evaluationVars,
            drawn>>

\* other.classify(example)
ClassifyOther ==
    /\ other.built
    /\ example # NoExample
    /\ LET r == ID3Classify(other.root, example)
       IN /\ other' = [other EXCEPT !.root = r.root]
          /\ example' = r.example
          /\ ret' = [op |-> "classify", arg |-> "other", raised |-> r.raised,
                     value |-> r.value]
          /\ writes' = r.writes
    /\ UNCHANGED <<inputVars, classVars, id3, classifier, first, constructed,
                   evaluationVars, drawn>>

ID3Next ==
    \/ \E c \in Cutoffs : SetCutoff(c)
    \/ \E kind \in ExampleKinds : NewExample(kind)
    \/ ConstructID3
    \/ ConstructOther
    \/ ClassifyID3
    \/ ClassifyOther

SpecID3 == Init /\ [][ID3Next]_vars

\* C9: a built ID3 tree is never modified after construction: whatever classify
\* calls, constructions of other trees and changes of ID3.cutoff happen,
\* classifying the same example again returns the same category and leaves the
\* same predicted as the first time.
C9_TreeImmutable ==
    /\ id3.built => id3.root = constructed
    /\ (ret.op = "classify" /\ ret.arg = "id3") =>
        /\ ~ret.raised
        /\ ret.value = first
        /\ example.predicted = first

\* the tree classifies an example again after the other tree has classified it
\* differently and the cutoff has changed since its construction
C9_Witness ==
    /\ ret.op = "classify" /\ ret.arg = "id3"
    /\ id3.root.category = NONE
    /\ other.built /\ Walk(other.root, example).value # first
    /\ writes = <<first>>
    /\ ~(<<cutoff, Ok(id3.root)>> \in ID3Outcomes)

---------------------------------------------------------------------------
(* SpecWalk: an ID3 tree classifies examples whose attribute lists repeat and
   reorder tokens *)

\* the attribute lists of the Examples classified: every list of at most two
\* tokens, so that a token occurs once or twice, first or second
WalkAttrSeqs == UNION {[1..n -> Tokens] : n \in 0..Cardinality(Tokens)}
WalkKinds == {NewExampleObj(CategoryValues[1], attrs) : attrs \in WalkAttrSeqs}

WalkInit ==
    /\ examples \in TrainExampleLists
    /\ attributes \in AttributeLists
    /\ cutoff \in Cutoffs
    /\ tree_count = DefaultTreeCount
    /\ ret = NoReturn
    /\ ClassifiersInit /\ EvaluationInit

WalkNext ==
    \/ BuildID3
    \/ \E kind \in WalkKinds : NewExample(kind)
    \/ ClassifyID3

SpecWalk == WalkInit /\ [][WalkNext]_vars

\* the tokens of an example
TokenSet(ex) == {ex.attributes[i] : i \in DOMAIN ex.attributes}

\* the category of the leaf reached from the node by going to the present child
\* when the node's attribute is among the tokens and to the absent child otherwise
RECURSIVE LeafReached(_, _)
LeafReached(node, tokens) ==
    IF node.category # NONE THEN node.category
    ELSE LeafReached(node.children[node.attribute \in tokens], tokens)

\* C25: ID3.classify on a built tree ends and returns the category of the leaf
\* reached from the root by descending to the present child where the node's
\* attribute occurs among the example's attributes and to the absent child
\* otherwise; the result is a function of the set of tokens of the example.
C25_ClassifyDescends ==
    (ret.op = "classify" /\ ret.arg = "id3") =>
        /\ ~ret.raised
        /\ ret.value \in CategorySet
        /\ ret.value = LeafReached(id3.root, TokenSet(example))

\* an example whose second token is the attribute of the root went to the
\* present child, whose leaf differs from the one of the absent child
C25_Witness ==
    /\ ret.op = "classify" /\ ret.arg = "id3"
    /\ id3.root.category = NONE
    /\ Len(example.attributes) = 2
    /\ example.attributes[2] = id3.root.attribute
    /\ example.attributes[1] # id3.root.attribute
    /\ id3.root.children[TRUE].category \in CategorySet
    /\ id3.root.children[FALSE].category \in CategorySet
    /\ id3.root.children[TRUE].category # id3.root.children[FALSE].category
    /\ ret.value = id3.root.children[TRUE].category

\* an example holding the root's attribute twice went to the present child
C25_TwiceWitness ==
    /\ ret.op = "classify" /\ ret.arg = "id3"
    /\ id3.root.category = NONE
    /\ example.attributes = <<id3.root.attribute, id3.root.attribute>>
    /\ id3.root.children[TRUE].category # id3.root.children[FALSE].category
    /\ ret.value = id3.root.children[TRUE].category

\* a walk through two internal nodes
C25_DeepWitness ==
    /\ ret.op = "classify" /\ ret.arg = "id3"
    /\ id3.root.category = NONE
    /\ id3.root.children[id3.root.attribute \in TokenSet(example)].category = NONE

---------------------------------------------------------------------------
(* SpecEval: a collection of classified examples is evaluated *)

\* the Examples of a classified collection: tests.py creates them with actual
\* NONE and assigns actual and predicted; an unclassified one keeps predicted NONE
ClassifiedKinds ==
    {[NewExampleObj(a, <<"">>) EXCEPT !.predicted = p] :
        a \in CategorySet \cup {NONE}, p \in CategorySet \cup {NONE}}

\* the number of Examples of the collection that are among `chosen`
CountAmong(classified_examples, chosen) ==
    BagCardinality([e \in BagToSet(classified_examples) \cap chosen |->
                        CopiesIn(e, classified_examples)])

\* ClassifierEvaluation.__init__(classified_examples)
NewClassifierEvaluation(classified_examples) ==
    [built |-> TRUE,
     example_count |-> BagCardinality(classified_examples),
     data |-> [category \in CategorySet |->
                 [b \in BOOLEAN |->
                    CountAmong(classified_examples,
                               {e \in BagToSet(classified_examples) :
                                   /\ e.predicted = category
                                   /\ (e.actual = category) = b})]]]

\* sum(self._data[c][True] for c in Category.values())
RECURSIVE SumTrue(_, _)
SumTrue(data, i) ==
    IF i > Len(CategoryValues) THEN 0
    ELSE data[CategoryValues[i]][TRUE] + SumTrue(data, i + 1)

\* accuracy() that counts the correct predictions of POS alone
AccuracyOfPositive(self) ==
    IF self.example_count = 0 THEN [num |-> 0, den |-> 1]
    ELSE [num |-> self.data[POS][TRUE], den |-> self.example_count]

\* ClassifierEvaluation.accuracy(): the quotient as the fraction num/den
Accuracy(self) ==
    IF self.example_count = 0 THEN [num |-> 0, den |-> 1]
    ELSE [num |-> SumTrue(self.data, 1), den |-> self.example_count]

\* a quotient a / b of two numbers as the fraction num/den (den > 0)
Ratio(n, d) == [num |-> n, den |-> d]
RatioOk(n, d) == [raised |-> FALSE, value |-> Ratio(n, d)]
\* ZeroDivisionError; value is then a filler of the type
RaiseRatio == [raised |-> TRUE, value |-> Ratio(0, 0)]
RatioAdd(x, y) == Ratio(x.num * y.den + y.num * x.den, x.den * y.den)
RatioMul(x, y) == Ratio(x.num * y.num, x.den * y.den)
RatioEq(x, y) == x.num * y.den = y.num * x.den
\* x / y of Python: ZeroDivisionError when y is 0
RatioDiv(x, y) ==
    IF y.num = 0 THEN RaiseRatio ELSE RatioOk(x.num * y.den, x.den * y.num)

\* as Precision, but 0 when nothing was classified with the category
PrecisionZeroWhenEmpty(self, category) ==
    LET predicted_of_category == self.data[category][TRUE]
        total_classified_of_category ==
            self.data[category][TRUE] + self.data[category][FALSE]
    IN IF total_classified_of_category = 0 THEN Ratio(0, 1)
       ELSE Ratio(predicted_of_category, total_classified_of_category)

\* ClassifierEvaluation.precision(category)
Precision(self, category) ==
    LET predicted_of_category == self.data[category][TRUE]
        total_classified_of_category ==
            self.data[category][TRUE] + self.data[category][FALSE]
    IN IF total_classified_of_category = 0 THEN Ratio(1, 1)
       ELSE Ratio(predicted_of_category, total_classified_of_category)

\* sum(self._data[c][False] for c in Category.values() if c != category)
RECURSIVE SumFalseOthers(_, _, _)
SumFalseOthers(data, category, i) ==
    IF i > Len(CategoryValues) THEN 0
    ELSE (IF CategoryValues[i] # category THEN data[CategoryValues[i]][FALSE] ELSE 0)
         + SumFalseOthers(data, category, i + 1)

\* as Recall, but over the examples classified with the category
RecallOverClassified(self, category) ==
    LET predicted_of_category == self.data[category][TRUE]
        true_members_of_category ==
            self.data[category][TRUE] + self.data[category][FALSE]
    IN IF true_members_of_category = 0 THEN Ratio(0, 1)
       ELSE Ratio(predicted_of_category, true_members_of_category)

\* ClassifierEvaluation.recall(category)
Recall(self, category) ==
    LET predicted_of_category == self.data[category][TRUE]
        true_members_of_category ==
            self.data[category][TRUE] + SumFalseOthers(self.data, category, 1)
    IN IF true_members_of_category = 0 THEN Ratio(0, 1)
       ELSE Ratio(predicted_of_category, true_members_of_category)

\* the float b of f_measure: 0.0, or the power of two 2^exp
BZero == [zero |-> TRUE, exp |-> 0]
BPow2(k) == [zero |-> FALSE, exp |-> k]

\* the exponent of the smallest positive float, 2^-1074 (IEEE 754 binary64)
MinFloatExponent == -1074

\* whether b * b underflows: the exact square 2^(2 exp) is below half of the
\* smallest positive float and rounds to 0.0
SquareUnderflows(b) == ~b.zero /\ 2 * b.exp < MinFloatExponent

\* the float b * b
Square(b) ==
    IF b.zero \/ SquareUnderflows(b) THEN Ratio(0, 1)
    ELSE IF b.exp >= 0 THEN Ratio(Pow2(2 * b.exp), 1)
    ELSE Ratio(1, Pow2(- 2 * b.exp))

\* ClassifierEvaluation.f_measure(category, b)
FMeasure(self, category, b) ==
    LET precision == Precision(self, category)
        recall == Recall(self, category)
        bb == Square(b)
    IN IF precision.num = 0 /\ recall.num = 0 THEN RatioOk(0, 1)
       ELSE IF b.zero /\ recall.num = 0 THEN RatioOk(0, 1)
       ELSE RatioDiv(RatioMul(RatioMul(RatioAdd(bb, Ratio(1, 1)), precision), recall),
                     RatioAdd(RatioMul(bb, precision), recall))

\* sum(f(c) for c in Category.values()) for the fractions f[c]
RECURSIVE SumRatios(_, _)
SumRatios(f, i) ==
    IF i > Len(CategoryValues) THEN Ratio(0, 1)
    ELSE RatioAdd(f[CategoryValues[i]], SumRatios(f, i + 1))

\* ClassifierEvaluation.macro_precision(): len(self._data) is the number of
\* categories
MacroPrecision(self) ==
    RatioDiv(SumRatios([c \in CategorySet |-> Precision(self, c)], 1),
             Ratio(Cardinality(DOMAIN self.data), 1))

\* ClassifierEvaluation.macro_recall()
MacroRecall(self) ==
    RatioDiv(SumRatios([c \in CategorySet |-> Recall(self, c)], 1),
             Ratio(Cardinality(DOMAIN self.data), 1))

\* ClassifierEvaluation.micro_precision()
MicroPrecision(self) ==
    LET enumerator == SumTrue(self.data, 1)
        denominator ==
            SumRatios([c \in CategorySet |->
                         Ratio(self.data[c][TRUE] + self.data[c][FALSE], 1)], 1)
    IN RatioDiv(Ratio(enumerator, 1), denominator)

\* ClassifierEvaluation.micro_recall()
MicroRecall(self) ==
    LET enumerator == SumTrue(self.data, 1)
        denominator ==
            SumRatios([c \in CategorySet |->
                         Ratio(self.data[c][TRUE] + SumFalseOthers(self.data, c, 1), 1)], 1)
    IN RatioDiv(Ratio(enumerator, 1), denominator)

\* an Example with its actual and predicted assigned joins the collection
AddClassified(e) ==
    /\ ~ce.built
    /\ BagCardinality(classified) < MaxClassified
    /\ classified' = classified (+) SetToBag({e})
    /\ UNCHANGED <<ce, ret, inputVars, classVars, classifierVars>>

\* ce = ClassifierEvaluation(set(examples))
ConstructEvaluation ==
    /\ ~ce.built
    /\ ce' = NewClassifierEvaluation(classified)
    /\ UNCHANGED <<classified, ret, inputVars, classVars, classifierVars>>

\* ce.accuracy()
CallAccuracy ==
    /\ ce.built
    /\ ret' = [op |-> "accuracy", arg |-> "", raised |-> FALSE, value |-> Accuracy(ce)]
    /\ UNCHANGED <<evaluationVars, inputVars, classVars, classifierVars>>

EvalNext ==
    \/ \E e \in ClassifiedKinds : AddClassified(e)
    \/ ConstructEvaluation
    \/ CallAccuracy

SpecEval == Init /\ [][EvalNext]_vars

\* the number of Examples of the collection with predicted == actual
Matches(classified_examples) ==
    CountAmong(classified_examples,
               {e \in BagToSet(classified_examples) : e.predicted = e.actual})

\* C10: for a collection of examples whose predicted is POS or NEG, accuracy()
\* is the exact ratio of the number of examples with predicted == actual to the
\* number of examples, and 0 for the empty collection.
C10_AccuracyIsMatchRatio ==
    (/\ ret.op = "accuracy"
     /\ \A e \in BagToSet(classified) : e.predicted \in CategorySet) =>
        /\ ret.value.den > 0
        /\ IF BagCardinality(classified) = 0
           THEN ret.value.num = 0
           ELSE ret.value.num * BagCardinality(classified)
                    = Matches(classified) * ret.value.den

\* the collection of test_classifier_evaluation is evaluated at 6/10
C10_Witness ==
    /\ ret.op = "accuracy"
    /\ classified =
         LET ex(a, p) == [NewExampleObj(a, <<"">>) EXCEPT !.predicted = p]
         IN (ex(POS, POS) :> 4) @@ (ex(POS, NEG) :> 1) @@
            (ex(NEG, POS) :> 3) @@ (ex(NEG, NEG) :> 2)
    /\ ret.value.num * 10 = 6 * ret.value.den
    /\ ret.value.num # 0

\* the empty collection is evaluated at 0
C10_EmptyWitness ==
    /\ ret.op = "accuracy"
    /\ classified = EmptyBag
    /\ ret.value.num = 0

---------------------------------------------------------------------------
(* SpecMetrics: every metric of an evaluation is called *)

\* an Example of ClassifiedKinds with the given actual and predicted
Classified(a, p) == [NewExampleObj(a, <<"">>) EXCEPT !.predicted = p]

\* the collection test_classifier_evaluation builds: act and pre zipped
FixtureExamples ==
    (Classified(POS, POS) :> 4) @@ (Classified(POS, NEG) :> 1) @@
    (Classified(NEG, POS) :> 3) @@ (Classified(NEG, NEG) :> 2)

\* an Example with its actual and predicted assigned joins a small collection
AddEvaluated(e) ==
    /\ ~ce.built
    /\ BagCardinality(classified) < MaxEvaluated
    /\ classified' = classified (+) SetToBag({e})
    /\ UNCHANGED <<ce, ret, inputVars, classVars, classifierVars>>

\* the examples of test_classifier_evaluation
TestExamples ==
    /\ ~ce.built
    /\ classified = EmptyBag
    /\ classified' = FixtureExamples
    /\ UNCHANGED <<ce, ret, inputVars, classVars, classifierVars>>

\* the values of b that f_measure is called with: 0, 1/2, 1, 2 and 2^-600
BValues == {BZero, BPow2(-1), BPow2(0), BPow2(1), BPow2(-600)}

\* ce.precision(category)
CallPrecision(category) ==
    /\ ce.built
    /\ ret' = [op |-> "precision", arg |-> category, raised |-> FALSE,
               value |-> Precision(ce, category)]
    /\ UNCHANGED <<evaluationVars, inputVars, classVars, classifierVars>>

\* ce.recall(category)
CallRecall(category) ==
    /\ ce.built
    /\ ret' = [op |-> "recall", arg |-> category, raised |-> FALSE,
               value |-> Recall(ce, category)]
    /\ UNCHANGED <<evaluationVars, inputVars, classVars, classifierVars>>

\* ce.f_measure(category, b)
CallFMeasure(category, b) ==
    /\ ce.built
    /\ ret' = [op |-> "f_measure", arg |-> category, b |-> b] @@ FMeasure(ce, category, b)
    /\ UNCHANGED <<evaluationVars, inputVars, classVars, classifierVars>>

\* ce.macro_precision(), ce.macro_recall(), ce.micro_precision(), ce.micro_recall()
CallMacroPrecision ==
    /\ ce.built
    /\ ret' = [op |-> "macro_precision", arg |-> ""] @@ MacroPrecision(ce)
    /\ UNCHANGED <<evaluationVars, inputVars, classVars, classifierVars>>
CallMacroRecall ==
    /\ ce.built
    /\ ret' = [op |-> "macro_recall", arg |-> ""] @@ MacroRecall(ce)
    /\ UNCHANGED <<evaluationVars, inputVars, classVars, classifierVars>>
CallMicroPrecision ==
    /\ ce.built
    /\ ret' = [op |-> "micro_precision", arg |-> ""] @@ MicroPrecision(ce)
    /\ UNCHANGED <<evaluationVars, inputVars, classVars, classifierVars>>
CallMicroRecall ==
    /\ ce.built
    /\ ret' = [op |-> "micro_recall", arg |-> ""] @@ MicroRecall(ce)
    /\ UNCHANGED <<evaluationVars, inputVars, classVars, classifierVars>>

MetricsNext ==
    \/ \E e \in ClassifiedKinds : AddEvaluated(e)
    \/ TestExamples
    \/ ConstructEvaluation
    \/ CallAccuracy
    \/ \E c \in CategorySet : CallPrecision(c)
    \/ \E c \in CategorySet : CallRecall(c)
    \/ \E c \in CategorySet, b \in BValues : CallFMeasure(c, b)
    \/ CallMacroPrecision
    \/ CallMacroRecall
    \/ CallMicroPrecision
    \/ CallMicroRecall

SpecMetrics == Init /\ [][MetricsNext]_vars

\* the number of Examples of the evaluated collection with the given actual
\* and predicted; "" stands for any
CountOfKind(a, p) ==
    CountAmong(classified,
               {e \in BagToSet(classified) :
                   (a = "" \/ e.actual = a) /\ (p = "" \/ e.predicted = p)})

\* C11: for every category c and any collection of classified examples,
\* precision(c) is the number of examples with predicted == c and actual == c
\* over the number with predicted == c, and 1 when none has predicted == c.
C11_PrecisionIsRatio ==
    ret.op = "precision" =>
        /\ ret.value.den > 0
        /\ IF CountOfKind("", ret.arg) = 0
           THEN RatioEq(ret.value, Ratio(1, 1))
           ELSE RatioEq(ret.value,
                        Ratio(CountOfKind(ret.arg, ret.arg), CountOfKind("", ret.arg)))

\* precision(POS) of the collection of test_classifier_evaluation is 4/7
C11_Witness ==
    /\ ret.op = "precision" /\ ret.arg = POS
    /\ classified = FixtureExamples
    /\ RatioEq(ret.value, Ratio(4, 7))

\* precision(NEG) is 1 when nothing was classified NEG
C11_EmptyWitness ==
    /\ ret.op = "precision" /\ ret.arg = NEG
    /\ classified = SetToBag({Classified(NEG, POS)})
    /\ RatioEq(ret.value, Ratio(1, 1))

\* C12: for every category c and any collection of examples whose actual and
\* predicted are both POS or NEG, recall(c) is the number of examples with
\* predicted == c and actual == c over the number with actual == c, and 0 when
\* none has actual == c.
C12_RecallIsRatio ==
    (/\ ret.op = "recall"
     /\ \A e \in BagToSet(classified) :
            e.actual \in CategorySet /\ e.predicted \in CategorySet) =>
        /\ ret.value.den > 0
        /\ IF CountOfKind(ret.arg, "") = 0
           THEN ret.value.num = 0
           ELSE RatioEq(ret.value,
                        Ratio(CountOfKind(ret.arg, ret.arg), CountOfKind(ret.arg, "")))

\* recall(POS) of the collection of test_classifier_evaluation is 4/5
C12_Witness ==
    /\ ret.op = "recall" /\ ret.arg = POS
    /\ classified = FixtureExamples
    /\ RatioEq(ret.value, Ratio(4, 5))

\* C13: f_measure(c, b) never divides by zero: it returns 0 when precision(c)
\* and recall(c) are both 0 or when b == 0 and recall(c) == 0, and otherwise
\* ((b*b + 1) * precision * recall) / (b*b * precision + recall), whose
\* denominator is not zero.
C13_FMeasureNeverDividesByZero ==
    ret.op = "f_measure" =>
        LET precision == Precision(ce, ret.arg)
            recall == Recall(ce, ret.arg)
            \* the real b * b, when it can be written down
            bb == IF ret.b.zero THEN Ratio(0, 1)
                  ELSE IF ret.b.exp >= 0 THEN Ratio(Pow2(2 * ret.b.exp), 1)
                  ELSE Ratio(1, Pow2(- 2 * ret.b.exp))
        IN /\ ~ret.raised
           /\ (precision.num = 0 /\ recall.num = 0) => ret.value.num = 0
           /\ (ret.b.zero /\ recall.num = 0) => ret.value.num = 0
           /\ (ret.b.zero \/ ret.b.exp \in -4..4) =>
                RatioEq(RatioMul(ret.value, RatioAdd(RatioMul(bb, precision), recall)),
                        RatioMul(RatioMul(RatioAdd(bb, Ratio(1, 1)), precision), recall))

\* C14: every ratio of the evaluation returns a value and none raises a
\* division-by-zero error, for every collection of examples, the empty one and
\* those without a classified example included.
C14_RatiosNeverRaise ==
    ret.op \in {"accuracy", "precision", "recall", "f_measure", "macro_precision",
                "macro_recall", "micro_precision", "micro_recall"} =>
        ~ret.raised

---------------------------------------------------------------------------
(* Spec: a forest without trees *)

\* C15: classifying with a RandomForest that holds zero trees is an error:
\* classify signals it, returns no category and does not set the example's
\* predicted to a vote winner.
C15_EmptyForestClassifyRaises ==
    (/\ ret.op = "classify" /\ ret.arg = "RandomForest"
     /\ BagCardinality(classifier.trees) = 0) =>
        /\ ret.raised
        /\ writes = <<>>

---------------------------------------------------------------------------
(* SpecTrain: classifiers are trained on a pool of Example objects and *)
(* classify them, one at a time and in bulk                            *)

\* the pools of Example objects: `examples` holds the objects themselves
\* (of the Examples whose attributes are [] or ['a'])
PoolLists ==
    {exs \in UNION {ExampleListsOfLen(n) : n \in 0..MaxPoolExamples} :
        \A i \in DOMAIN exs : ~Contains("b", exs[i])}

\* the attribute lists and the tree_count the pool is trained with
TrainAttributeLists == {<<"a">>, <<"a", "b">>}
TrainTreeCounts == {2}

TrainInit ==
    /\ examples \in PoolLists
    /\ attributes \in TrainAttributeLists
    /\ ClassesInit /\ ClassifiersInit /\ EvaluationInit
    /\ ret = NoReturn

\* as ID3New, but leaving each training example's category in its predicted
ID3NewLabelling(exs, attrs, cut) ==
    [examples |-> [i \in DOMAIN exs |-> [exs[i] EXCEPT !.predicted = exs[i].actual]]]
        @@ Id3Recursive(exs, attrs, cut)

\* ID3(examples, attributes): the result of id3_recursive and the examples as
\* the constructor leaves them; it reads their actual and attributes only
ID3New(exs, attrs, cut) == [examples |-> exs] @@ Id3Recursive(exs, attrs, cut)

\* RandomForest(examples, attributes) for each outcome of the draws: the trees
\* and the examples as the constructor leaves them; every ID3 is constructed
\* on a list of the same Example objects
RandomForestNew(exs, attrs, cut, n) ==
    {[examples |-> exs] @@ ForestOf(results) :
        results \in [1..n -> {[raised |-> t.raised, value |-> t.value] :
                                t \in {ID3New(es, as, cut) :
                                        es \in Choices(exs, ExampleCount(Len(exs))),
                                        as \in Samples(attrs, AttributeCount(Len(attrs), Len(exs)))}}]}

\* the loop of Classifier.classify_bulk from its i-th example on: the outcomes
\* [raised, examples, count] over the iteration orders of a forest's trees
RECURSIVE BulkLoop(_, _, _, _)
BulkLoop(clf, exs, i, category_count) ==
    IF i > Len(exs)
    THEN {[raised |-> FALSE, examples |-> exs, value |-> category_count]}
    ELSE UNION {IF r.raised
                THEN {[raised |-> TRUE, examples |-> [exs EXCEPT ![i] = r.example],
                       value |-> category_count]}
                ELSE BulkLoop(clf, [exs EXCEPT ![i] = r.example], i + 1,
                              [category_count EXCEPT ![r.value] = @ + 1]) :
                r \in ClassifyResults(clf, exs[i])}

\* Classifier.classify_bulk(examples)
ClassifyBulkResults(clf, exs) == BulkLoop(clf, exs, 1, CountingDict(0))

\* classifier = ID3(examples, attributes)
TrainID3 ==
    /\ LET r == ID3New(examples, attributes, cutoff)
       IN /\ classifier' = IF r.raised THEN classifier
                           ELSE [kind |-> "ID3", root |-> r.value, trees |-> EmptyBag]
          /\ examples' = r.examples
          /\ ret' = [op |-> "ID3", arg |-> "", raised |-> r.raised, value |-> NONE]
    /\ writes' = <<>>
    /\ UNCHANGED <<attributes, classVars, id3, other, example, first, constructed,
                   evaluationVars, drawn>>

\* classifier = RandomForest(examples, attributes)
TrainRandomForest ==
    /\ tree_count \in TrainTreeCounts
    /\ \E r \in RandomForestNew(examples, attributes, cutoff, tree_count) :
        /\ classifier' = IF r.raised THEN classifier
                         ELSE [kind |-> "RandomForest", root |-> None, trees |-> r.value]
        /\ examples' = r.examples
        /\ ret' = [op |-> "RandomForest", arg |-> "", raised |-> r.raised,
                   value |-> NONE]
    /\ writes' = <<>>
    /\ UNCHANGED <<attributes, classVars, id3, other, example, first, constructed,
                   evaluationVars, drawn>>

\* classifier.classify(examples[i])
ClassifyPooled(i) ==
    /\ classifier.kind # "none"
    /\ \E r \in ClassifyResults(classifier, examples[i]) :
        /\ examples' = [examples EXCEPT ![i] = r.example]
        /\ ret' = [op |-> "classify", arg |-> classifier.kind, raised |-> r.raised,
                   value |-> r.value, targets |-> {i}]
        /\ writes' = r.writes
    /\ UNCHANGED <<attributes, classVars, id3, other, classifier, example, first,
                   constructed, evaluationVars, drawn>>

\* classifier.classify_bulk(examples)
ClassifyBulk ==
    /\ classifier.kind # "none"
    /\ \E r \in ClassifyBulkResults(classifier, examples) :
        /\ examples' = r.examples
        /\ ret' = [op |-> "classify_bulk", arg |-> classifier.kind, raised |-> r.raised,
                   value |-> r.value, targets |-> DOMAIN examples]
    /\ writes' = <<>>
    /\ UNCHANGED <<attributes, classVars, id3, other, classifier, example, first,
                   constructed, evaluationVars, drawn>>

TrainNext ==
    \/ \E n \in TrainTreeCounts : SetTreeCount(n)
    \/ TrainID3
    \/ TrainRandomForest
    \/ \E i \in DOMAIN examples : ClassifyPooled(i)
    \/ ClassifyBulk

SpecTrain == TrainInit /\ [][TrainNext]_vars

\* C16: over any sequence of ID3 constructions, RandomForest constructions,
\* classify and classify_bulk calls, every example's actual never changes, its
\* predicted changes only in a classify or classify_bulk call on that example
\* (so it stays NONE until the first one, and no construction writes it), and
\* after a classify call on it its predicted is POS or NEG from then on.
C16_ExampleFieldsKept ==
    [][\A i \in DOMAIN examples :
          LET called == /\ ret'.op \in {"classify", "classify_bulk"}
                        /\ i \in ret'.targets
          IN /\ DOMAIN examples' = DOMAIN examples
             /\ examples'[i].actual = examples[i].actual
             /\ examples'[i].attributes = examples[i].attributes
             /\ examples'[i].predicted # examples[i].predicted => called
             /\ called => (~ret'.raised /\ examples'[i].predicted \in CategorySet)
             /\ examples[i].predicted \in CategorySet =>
                    examples'[i].predicted \in CategorySet]_vars

\* a forest trained on the pool has classified one of its training examples,
\* and another training example is still unclassified
C16_Witness ==
    /\ ret.op = "classify" /\ ret.arg = "RandomForest"
    /\ BagCardinality(classifier.trees) > 1
    /\ \E i, j \in DOMAIN examples :
        /\ i \in ret.targets
        /\ examples[i].predicted \in CategorySet
        /\ examples[j].predicted = NONE

\* classify_bulk has classified a pool whose examples had all been classified
\* the other way by another classifier
C16_BulkWitness ==
    /\ ret.op = "classify_bulk" /\ ret.arg = "ID3"
    /\ Len(examples) > 1
    /\ \A i \in DOMAIN examples : examples[i].predicted = NEG
    /\ ret.value[NEG] = Len(examples)

---------------------------------------------------------------------------
(* SpecCopy: Example objects are created, copied and assigned to *)

\* Example.copy_of(example): a new Example with the actual, the predicted and
\* the attributes (the same list object; no code changes a list) of example
CopyOf(e) ==
    [[NewExampleObj(e.actual, <<"">>) EXCEPT !.predicted = e.predicted]
        EXCEPT !.attributes = e.attributes]

\* the Examples created here: their attributes are [] or ['a']
CopyKinds == {k \in ExampleKinds : ~Contains("b", k)}

\* examples.append(Example(category, raw_text)): `examples` holds the objects
CreateExample(kind) ==
    /\ Len(examples) < MaxCopyExamples
    /\ examples' = Append(examples, kind)
    /\ ret' = [op |-> "Example", arg |-> "", raised |-> FALSE, value |-> Len(examples) + 1,
               targets |-> {}]
    /\ UNCHANGED <<attributes, classVars, classifierVars, evaluationVars>>

\* examples[i].predicted = category
AssignPredicted(i, category) ==
    /\ examples' = [examples EXCEPT ![i].predicted = category]
    /\ ret' = [op |-> "predicted", arg |-> category, raised |-> FALSE, value |-> i,
               targets |-> {i}]
    /\ UNCHANGED <<attributes, classVars, classifierVars, evaluationVars>>

\* examples.append(Example.copy_of(examples[i]))
CallCopyOf(i) ==
    /\ Len(examples) < MaxCopyExamples
    /\ examples' = Append(examples, CopyOf(examples[i]))
    /\ ret' = [op |-> "copy_of", arg |-> "", raised |-> FALSE, value |-> Len(examples) + 1,
               targets |-> {i}]
    /\ UNCHANGED <<attributes, classVars, classifierVars, evaluationVars>>

CopyNext ==
    \/ \E kind \in CopyKinds : CreateExample(kind)
    \/ \E i \in DOMAIN examples, c \in CategorySet : AssignPredicted(i, c)
    \/ \E i \in DOMAIN examples : CallCopyOf(i)

SpecCopy == Init /\ [][CopyNext]_vars

\* C17: Example.copy_of(e) returns a new example, distinct from e, with the
\* same actual and attributes and with predicted == NONE whatever e.predicted
\* is; a later write to the predicted of one of the two does not change the
\* other's.
C17_CopyIsFresh ==
    [][/\ ret'.op = "copy_of" =>
            \A i \in ret'.targets :
                /\ ret'.value \notin DOMAIN examples
                /\ examples'[ret'.value].actual = examples[i].actual
                /\ examples'[ret'.value].attributes = examples[i].attributes
                /\ examples'[ret'.value].predicted = NONE
       /\ ret'.op = "predicted" =>
            \A j \in DOMAIN examples : j \notin ret'.targets => examples'[j] = examples[j]
      ]_vars

---------------------------------------------------------------------------
(* SpecSnapshot: Examples are evaluated and written to afterwards *)

\* as EvaluationAfterWrite, but counting the examples again
EvaluationRecounted(self, exs) ==
    IF self.built THEN NewClassifierEvaluation(BagOfSeq(exs)) ELSE self

\* the ClassifierEvaluation after an assignment to a field of an Example it
\* was constructed from: __init__ stored numbers, no reference to the Examples
EvaluationAfterWrite(self, exs) == self

\* examples.append(Example(category, ""))
CreateClassifiable(category) ==
    /\ Len(examples) < MaxPoolExamples
    /\ examples' = Append(examples, Classified(category, NONE))
    /\ ret' = NoReturn
    /\ UNCHANGED <<attributes, classVars, classifierVars, evaluationVars>>

\* ce = ClassifierEvaluation(set(examples))
EvaluateExamples ==
    /\ ~ce.built
    /\ classified' = BagOfSeq(examples)
    /\ ce' = NewClassifierEvaluation(BagOfSeq(examples))
    /\ ret' = NoReturn
    /\ UNCHANGED <<inputVars, classVars, classifierVars>>

\* examples[i].predicted = category (what a classify call assigns)
WritePredicted(i, category) ==
    /\ examples' = [examples EXCEPT ![i].predicted = category]
    /\ ce' = EvaluationAfterWrite(ce, examples')
    /\ ret' = NoReturn
    /\ UNCHANGED <<attributes, classVars, classifierVars, classified>>

\* examples[i].actual = category
WriteActual(i, category) ==
    /\ examples' = [examples EXCEPT ![i].actual = category]
    /\ ce' = EvaluationAfterWrite(ce, examples')
    /\ ret' = NoReturn
    /\ UNCHANGED <<attributes, classVars, classifierVars, classified>>

SnapshotNext ==
    \/ \E c \in CategorySet : CreateClassifiable(c)
    \/ EvaluateExamples
    \/ \E i \in DOMAIN examples, c \in CategorySet : WritePredicted(i, c)
    \/ \E i \in DOMAIN examples, c \in CategorySet : WriteActual(i, c)
    \/ CallAccuracy
    \/ \E c \in CategorySet : CallPrecision(c)
    \/ \E c \in CategorySet : CallRecall(c)
    \/ \E c \in CategorySet : CallFMeasure(c, BPow2(0))
    \/ CallMacroPrecision
    \/ CallMacroRecall
    \/ CallMicroPrecision
    \/ CallMicroRecall

SpecSnapshot == Init /\ [][SnapshotNext]_vars

\* what each accessor gives for the collection as it was at construction
AtConstruction == NewClassifierEvaluation(classified)
ValueAtConstruction ==
    IF ret.op = "accuracy" THEN [raised |-> FALSE, value |-> Accuracy(AtConstruction)]
    ELSE IF ret.op = "precision"
    THEN [raised |-> FALSE, value |-> Precision(AtConstruction, ret.arg)]
    ELSE IF ret.op = "recall"
    THEN [raised |-> FALSE, value |-> Recall(AtConstruction, ret.arg)]
    ELSE IF ret.op = "f_measure" THEN FMeasure(AtConstruction, ret.arg, ret.b)
    ELSE IF ret.op = "macro_precision" THEN MacroPrecision(AtConstruction)
    ELSE IF ret.op = "macro_recall" THEN MacroRecall(AtConstruction)
    ELSE IF ret.op = "micro_precision" THEN MicroPrecision(AtConstruction)
    ELSE MicroRecall(AtConstruction)

Accessors == {"accuracy", "precision", "recall", "f_measure", "macro_precision",
              "macro_recall", "micro_precision", "micro_recall"}

\* C26: a ClassifierEvaluation is a snapshot: its counts stay those of the
\* examples as they were at construction, whatever accessor is called and
\* whatever is written to predicted or actual of the examples afterwards, and
\* every accessor returns the value it has for those counts.
C26_EvaluationIsSnapshot ==
    ce.built =>
        /\ ce.example_count = BagCardinality(classified)
        /\ \A c \in CategorySet :
              /\ ce.data[c][TRUE] = CountOfKind(c, c)
              /\ ce.data[c][FALSE] = CountOfKind("", c) - CountOfKind(c, c)
        /\ ret.op \in Accessors =>
              /\ ret.raised = ValueAtConstruction.raised
              /\ ret.value = ValueAtConstruction.value

\* accuracy() was called after a write to an evaluated example, and a new
\* evaluation of the examples would give another accuracy
C26_Witness ==
    /\ ce.built /\ ret.op = "accuracy"
    /\ BagOfSeq(examples) # classified
    /\ ~RatioEq(ret.value, Accuracy(NewClassifierEvaluation(BagOfSeq(examples))))

\* the same for recall() after a write to the actual of an evaluated example
C26_ActualWitness ==
    /\ ce.built /\ ret.op = "recall"
    /\ \E i \in DOMAIN examples :
          /\ examples[i].predicted = ret.arg
          /\ examples[i].actual # ret.arg
          /\ CountOfKind(ret.arg, ret.arg) = Len(examples)
    /\ RatioEq(ret.value, Ratio(1, 1))

---------------------------------------------------------------------------
(* SpecForest: a RandomForest is constructed and its draws are recorded *)

\* the example lists handed to the RandomForest whose draws are recorded
\* (of the Examples whose attributes are [] or ['a'])
DrawExampleLists ==
    {exs \in ForestExampleLists : \A i \in DOMAIN exs : ~Contains("b", exs[i])}

\* the values of RandomForest.tree_count it is constructed under
DrawTreeCounts == {0, 2}

ForestInit ==
    /\ examples \in DrawExampleLists
    /\ attributes \in AttributeLists
    /\ ClassesInit /\ ClassifiersInit /\ EvaluationInit
    /\ ret = NoReturn

\* what one iteration of the loop of RandomForest.__init__ can draw
Draws(exs, attrs) ==
    {[example_subset |-> es, attribute_subset |-> as] :
        es \in Choices(exs, ExampleCount(Len(exs))),
        as \in Samples(attrs, AttributeCount(Len(attrs), Len(exs)))}

\* trained_tree = ID3(example_subset, attribute_subset) for each draw
TrainedTrees(draws, cut) ==
    [i \in DOMAIN draws |->
        Id3Recursive(draws[i].example_subset, draws[i].attribute_subset, cut)]

\* classifier = RandomForest(examples, attributes)
BuildRandomForest ==
    /\ classifier.kind = "none"
    /\ tree_count \in DrawTreeCounts
    /\ \E draws \in [1..tree_count -> Draws(examples, attributes)] :
        LET r == ForestOf(TrainedTrees(draws, cutoff))
        IN /\ classifier' = IF r.raised THEN classifier
                            ELSE [kind |-> "RandomForest", root |-> None, trees |-> r.value]
           /\ drawn' = IF r.raised THEN <<>> ELSE draws
           /\ ret' = [op |-> "RandomForest", arg |-> "", raised |-> r.raised,
                      value |-> NONE]
    /\ writes' = <<>>
    /\ UNCHANGED <<inputVars, classVars, id3, other, example, first, constructed,
                   evaluationVars>>

ForestNext ==
    \/ \E n \in DrawTreeCounts : SetTreeCount(n)
    \/ BuildRandomForest

SpecForest == ForestInit /\ [][ForestNext]_vars

\* floor(n * (1 - 1/e)) and floor(sqrt(n)), by their defining inequalities
\* (1 - 1/e = 0.6321...)
FloorOfShare(n) ==
    CHOOSE k \in 0..n : k * 10000 <= n * 6321 /\ n * 6321 < (k + 1) * 10000
FloorOfRoot(n) == CHOOSE r \in 0..n : r * r <= n /\ n < (r + 1) * (r + 1)

===========================================================================
